---- MODULE Spec2Model ----
(***************************************************************************)
(* Model of the PrejudiceRemover adapter                                   *)
(* (src/aif360/algorithms/inprocessing/prejudice_remover.py) and of the    *)
(* survey harness (src/run_experiment.py).                                 *)
(*                                                                         *)
(* Numbers stand for the float64 values numpy holds; every value used here *)
(* is a small integer, which np.array(..., dtype=np.float64), np.savetxt   *)
(* and np.loadtxt carry exactly.  Probabilities are written in tenths.     *)
(***************************************************************************)
EXTENDS Integers, Sequences, FiniteSets, TLC

----------------------------------------------------------------------------
(* Bounds of the model *)

\* longest dataset (rows) and longest predictor output (rows)
MaxRows == 2
\* calls made on the adapter by one thread
MaxCalls == 3
\* query rounds the operator asks to continue with
MaxRounds == 2
\* predict calls made by each of the concurrent threads
MaxConcurrentCalls == 1

Threads == {1, 2}
\* names of the temp directory: a call creates at most two files, so the
\* directory never runs out of names
NumPaths == 2 * Cardinality(Threads) * MaxCalls + 1
Paths == 1..NumPaths
\* no path: an unset attribute or local
NoPath == NumPaths + 1

----------------------------------------------------------------------------
(* Datasets: aif360 StandardDataset as fit/predict read it *)

Layouts == {"A", "B", "C"}

feature_names(l) ==
    CASE l = "A" -> <<"f1", "s", "f2">>
      [] l = "B" -> <<"r", "f1", "s">>
      [] l = "C" -> <<"f1", "r", "f2">>

label_names(l) ==
    CASE l = "A" -> <<"y">>
      [] l = "B" -> <<"y">>
      [] l = "C" -> <<"z">>

protected_attribute_names(l) ==
    CASE l = "A" -> <<"s">>
      [] l = "B" -> <<"r", "s">>
      [] l = "C" -> <<"r">>

\* value of column c in row k of the sample table: features f1, f2 =
\* [1,2],[3,4],[5,6],..., s = 0,1,0,..., y = 1,0,1,...
CellValue(c, k) ==
    CASE c = "f1" -> 2 * k - 1
      [] c = "f2" -> 2 * k
      [] c = "s"  -> (k + 1) % 2
      [] c = "y"  -> k % 2
      [] c = "r"  -> (k \div 2) % 2
      [] c = "z"  -> 1 - ((k \div 2) % 2)

\* a dataset of n rows holds the first n rows of the table
RowSeqs == {[i \in 1..n |-> i] : n \in 0..MaxRows}
Datasets == [layout : Layouts, rows : RowSeqs]
NoDataset == [layout |-> "none", rows |-> <<>>]

Range(s) == {s[i] : i \in DOMAIN s}

\* fit/predict: columns = dataset.feature_names + dataset.label_names
DataFrameColumns(ds) == feature_names(ds.layout) \o label_names(ds.layout)

\* df[col].values
ColumnValues(ds, col) == [i \in 1..Len(ds.rows) |-> CellValue(col, ds.rows[i])]

----------------------------------------------------------------------------
(* create_file_in_kamishima_format *)

\* a faulty variant of KamishimaColumns: the label before the sensitive attribute
KamishimaColumnsSwapped(columns, class_attr_, sensitive_attrs, single_sensitive) ==
    SelectSeq(columns, LAMBDA col : col # class_attr_ /\ col \notin Range(sensitive_attrs))
        \o <<class_attr_, single_sensitive>>

\* the columns appended to x, in order
KamishimaColumns(columns, class_attr_, sensitive_attrs, single_sensitive) ==
    SelectSeq(columns, LAMBDA col : col # class_attr_ /\ col \notin Range(sensitive_attrs))
        \o <<single_sensitive, class_attr_>>

\* np.array(x).T for a list x of equally long columns
Transpose(x, n) == [i \in 1..n |-> [j \in 1..Len(x) |-> x[j][i]]]

\* does df[single_sensitive] or df[class_attr] raise KeyError
KamishimaKeyError(ds, class_attr_, single_sensitive) ==
    \/ single_sensitive \notin Range(DataFrameColumns(ds))
    \/ class_attr_ \notin Range(DataFrameColumns(ds))

\* result = np.array(x).T
KamishimaMatrix(ds, class_attr_, single_sensitive) ==
    LET cols == KamishimaColumns(DataFrameColumns(ds), class_attr_,
                                 protected_attribute_names(ds.layout), single_sensitive)
        x == [j \in 1..Len(cols) |-> ColumnValues(ds, cols[j])]
    IN  Transpose(x, Len(ds.rows))

----------------------------------------------------------------------------
(* Files *)

Absent == [kind |-> "absent", rows |-> <<>>]
EmptyFile == [kind |-> "empty", rows |-> <<>>]
Garbage == [kind |-> "garbage", rows |-> <<>>]
ModelFile == [kind |-> "model", rows |-> <<>>]
\* np.savetxt(name, result): a file of no rows is an empty file
MatrixFile(m) == IF Len(m) = 0 THEN EmptyFile ELSE [kind |-> "matrix", rows |-> m]

----------------------------------------------------------------------------
(* numpy *)

NoArray == [ndim |-> 0, data |-> <<>>]

\* does np.loadtxt(name) raise (unparsable text, or no such file)
LoadtxtRaises(content) == content.kind \notin {"empty", "matrix"}

\* np.loadtxt(name) with the default ndmin=0: the result is squeezed, so a
\* file of one row is a 1-D vector and an empty file a 1-D array of length 0
loadtxt(content) ==
    IF content.kind = "empty" THEN [ndim |-> 1, data |-> <<>>]
    ELSE IF Len(content.rows) = 1 THEN [ndim |-> 1, data |-> content.rows[1]]
    ELSE [ndim |-> 2, data |-> content.rows]

\* m[:, 1] and m[:, 3:5] raise IndexError on an array of fewer than 2 dimensions
SliceRaises(m) == m.ndim < 2

Min(a, b) == IF a < b THEN a ELSE b

\* predictions = m[:, 1]
PredictionColumn(m) == [i \in 1..Len(m.data) |-> m.data[i][2]]

\* prediction_probs = m[:, 3:5] (a slice is clamped to the row's length)
ProbabilityColumns(m) ==
    [i \in 1..Len(m.data) |->
        [j \in 1..(Min(5, Len(m.data[i])) - Min(3, Len(m.data[i]))) |-> m.data[i][j + 3]]]

----------------------------------------------------------------------------
(* The adapter, the filesystem and the calls in progress *)

VARIABLES
    constructed,     \* the arguments the adapter was constructed with
    eta,             \* self.eta
    sensitive_attr,  \* self.sensitive_attr ("" when not given)
    class_attr,      \* self.class_attr ("" when not given)
    model_name,      \* self.model_name (NoPath while the attribute is not set)
    fs,              \* the temp directory: path -> content
    frame,           \* per thread: the fit/predict call in progress, or the last one
    ncalls           \* per thread: calls started

adapterVars == <<constructed, eta, sensitive_attr, class_attr, model_name, fs, frame, ncalls>>

\* run_experiment.py: the survey session
VARIABLES
    main_pc,         \* run_experiment: where the main thread is
    worker_pc,       \* get_subject_info on the executor's thread: where it is
    trained,         \* the model locals bound so far
    all_models,      \* all_models, once built
    future,          \* subject_info_t: the worker's result, once set
    subject,         \* subject, once subject_info_t.result() returned
    q,               \* adversarial_debiasing_query: its locals
    rounds,          \* query rounds started
    completed,       \* subject.log_completed_query calls of the session
    crashed          \* the exception that ended the program ("" while none)

experimentVars ==
    <<main_pc, worker_pc, trained, all_models, future, subject, q, rounds, completed, crashed>>

vars == <<adapterVars, experimentVars>>

NoArgs == [e |-> 0, i |-> NoPath, m |-> NoPath, o |-> NoPath]

IdleFrame ==
    [pc |-> "idle", op |-> "none", ds |-> NoDataset,
     arg_class |-> "", arg_sensitive |-> "",
     model_tmp |-> NoPath, in_name |-> NoPath, output_name |-> NoPath,
     created |-> {}, own |-> {}, foreign |-> FALSE,
     launched |-> FALSE, exitcode |-> 0, args |-> NoArgs,
     toolout |-> Absent, m |-> NoArray,
     err |-> "", predictions |-> <<>>, scores |-> <<>>,
     handle_before |-> NoPath]

\* a faulty variant of mkstemp: a name chosen without checking that it is
\* free, as tempfile.mktemp does
mkstempAnyName(files) == Paths

\* tempfile.mkstemp(): creates, with O_EXCL, a file whose name no file has.
\* The adapter only stores, passes on and unlinks the names it is given, so
\* which free name it gets makes no difference to it: the least one is taken.
mkstemp(files) ==
    {p \in Paths : /\ files[p].kind = "absent"
                   /\ \A o \in Paths : o < p => files[o].kind # "absent"}

\* does another call in progress own path p
Foreign(t, p) == \E u \in Threads \ {t} : p \in frame[u].own

\* an exception leaves the call: the frame keeps what the call did
Raise(t, f, e) == [frame EXCEPT ![t] = [f EXCEPT !.pc = "idle", !.err = e]]

----------------------------------------------------------------------------
(* fit and _runTrain *)

\* fit, up to the call of _runTrain
fit(t, ds) ==
    /\ frame[t].pc = "idle"
    /\ ncalls[t] < MaxCalls
    /\ ncalls' = [ncalls EXCEPT ![t] = @ + 1]
    /\ sensitive_attr' = IF sensitive_attr = ""
                            THEN protected_attribute_names(ds.layout)[1]
                            ELSE sensitive_attr
    /\ class_attr' = IF class_attr = "" THEN label_names(ds.layout)[1] ELSE class_attr
    /\ frame' = [frame EXCEPT ![t] =
                    [IdleFrame EXCEPT !.pc = "train_mkstemp", !.op = "fit", !.ds = ds,
                                      !.arg_class = class_attr',
                                      !.arg_sensitive = sensitive_attr',
                                      !.handle_before = model_name]]
    /\ UNCHANGED <<experimentVars, constructed, eta, model_name, fs>>

\* fd, model_name = tempfile.mkstemp(); os.close(fd)
runTrain_mkstemp(t) ==
    /\ frame[t].pc = "train_mkstemp"
    /\ \E p \in mkstemp(fs) :
          /\ fs' = [fs EXCEPT ![p] = EmptyFile]
          /\ frame' = [frame EXCEPT ![t] =
                [@ EXCEPT !.pc = "train_encode", !.model_tmp = p,
                          !.foreign = @ \/ Foreign(t, p)]]
    /\ UNCHANGED <<experimentVars, constructed, eta, sensitive_attr, class_attr, model_name, ncalls>>

\* train_name = create_file_in_kamishima_format(train_df)
runTrain_create_file(t) ==
    LET f == frame[t] IN
    /\ f.pc = "train_encode"
    /\ IF KamishimaKeyError(f.ds, f.arg_class, f.arg_sensitive)
       THEN /\ frame' = Raise(t, f, "KeyError")
            /\ fs' = fs
       ELSE \E p \in mkstemp(fs) :
              LET c == MatrixFile(KamishimaMatrix(f.ds, f.arg_class, f.arg_sensitive)) IN
              /\ fs' = [fs EXCEPT ![p] = c]
              /\ frame' = [frame EXCEPT ![t] =
                    [@ EXCEPT !.pc = "train_run", !.in_name = p,
                              !.created = @ \cup {p}, !.own = @ \cup {p},
                              !.foreign = @ \/ Foreign(t, p)]]
    /\ UNCHANGED <<experimentVars, constructed, eta, sensitive_attr, class_attr, model_name, ncalls>>

\* does subprocess.run([...]) raise: only when the process cannot be started;
\* the exit status is not looked at
RunRaises(launch, exitcode) == ~launch

\* subprocess.run(['python', .../train_pr.py, '-e', eta, '-i', train_name,
\*                 '-o', model_name, '--quiet'])
runTrain_subprocess(t) ==
    LET f == frame[t] IN
    /\ f.pc = "train_run"
    /\ \E launch \in BOOLEAN, exitcode \in {0, 1} :
          /\ ~launch => exitcode = 1
          /\ LET g == [f EXCEPT !.launched = launch, !.exitcode = exitcode,
                                !.args = [e |-> eta, i |-> f.in_name,
                                          m |-> NoPath, o |-> f.model_tmp],
                                !.foreign = @ \/ (launch /\ (Foreign(t, f.in_name)
                                                    \/ Foreign(t, f.model_tmp)))]
             IN /\ frame' = IF RunRaises(launch, exitcode)
                             THEN Raise(t, g, "FileNotFoundError")
                             ELSE [frame EXCEPT ![t] = [g EXCEPT !.pc = "train_unlink"]]
                /\ fs' = IF launch /\ exitcode = 0
                          THEN [fs EXCEPT ![f.model_tmp] = ModelFile]
                          ELSE fs
    /\ UNCHANGED <<experimentVars, constructed, eta, sensitive_attr, class_attr, model_name, ncalls>>

\* a faulty variant of TrainUnlinks: the model file is unlinked too, as the
\* commented-out os.unlink(model_name) would
TrainUnlinksModelToo(train_name, model_tmp) == {train_name, model_tmp}

\* the files _runTrain unlinks before it returns
TrainUnlinks(train_name, model_tmp) == {train_name}

\* os.unlink(train_name); return model_name; self.model_name = model_name
runTrain_return(t) ==
    LET f == frame[t]
        gone == TrainUnlinks(f.in_name, f.model_tmp) IN
    /\ f.pc = "train_unlink"
    /\ IF \E p \in gone : fs[p].kind = "absent"
       THEN /\ frame' = Raise(t, f, "FileNotFoundError")
            /\ UNCHANGED <<fs, model_name>>
       ELSE /\ fs' = [p \in Paths |-> IF p \in gone THEN Absent ELSE fs[p]]
            /\ model_name' = f.model_tmp
            /\ frame' = [frame EXCEPT ![t] =
                  [@ EXCEPT !.pc = "idle", !.own = @ \ gone,
                            !.foreign = @ \/ (\E p \in gone : Foreign(t, p))]]
    /\ UNCHANGED <<experimentVars, constructed, eta, sensitive_attr, class_attr, ncalls>>

----------------------------------------------------------------------------
(* predict and _runTest *)

\* row k of the matrix predict_lr.py writes: true label, predicted label,
\* sensitive attribute, class-0 probability, class-1 probability (in tenths);
\* the first two rows are [1,1,0,0.2,0.8] and [0,0,1,0.9,0.1]
OutRow(k) ==
    CASE k % 3 = 1 -> <<1, 1, 0, 2, 8>>
      [] k % 3 = 2 -> <<0, 0, 1, 9, 1>>
      [] OTHER     -> <<1, 0, 0, 6, 4>>

\* what the output file can hold after the predictor ran: a matrix of any
\* number of rows (none: the file is left as created), or unparsable text
ToolOutputs ==
    {MatrixFile([i \in 1..n |-> OutRow(i)]) : n \in 0..MaxRows} \cup {Garbage}

\* predict, up to the call of _runTest
predict(t, ds) ==
    /\ frame[t].pc = "idle"
    /\ ncalls[t] < MaxCalls
    /\ ncalls' = [ncalls EXCEPT ![t] = @ + 1]
    /\ frame' = [frame EXCEPT ![t] =
                    [IdleFrame EXCEPT !.pc = "test_mkstemp", !.op = "predict", !.ds = ds,
                                      !.arg_class = class_attr,
                                      !.arg_sensitive = sensitive_attr,
                                      !.handle_before = model_name]]
    /\ UNCHANGED <<experimentVars, constructed, eta, sensitive_attr, class_attr, model_name, fs>>

\* fd, output_name = tempfile.mkstemp(); os.close(fd)
runTest_mkstemp(t) ==
    /\ frame[t].pc = "test_mkstemp"
    /\ \E p \in mkstemp(fs) :
          /\ fs' = [fs EXCEPT ![p] = EmptyFile]
          /\ frame' = [frame EXCEPT ![t] =
                [@ EXCEPT !.pc = "test_encode", !.output_name = p,
                          !.created = @ \cup {p}, !.own = @ \cup {p},
                          !.foreign = @ \/ Foreign(t, p)]]
    /\ UNCHANGED <<experimentVars, constructed, eta, sensitive_attr, class_attr, model_name, ncalls>>

\* test_name = create_file_in_kamishima_format(test_df)
runTest_create_file(t) ==
    LET f == frame[t] IN
    /\ f.pc = "test_encode"
    /\ IF KamishimaKeyError(f.ds, f.arg_class, f.arg_sensitive)
       THEN /\ frame' = Raise(t, f, "KeyError")
            /\ fs' = fs
       ELSE \E p \in mkstemp(fs) :
              LET c == MatrixFile(KamishimaMatrix(f.ds, f.arg_class, f.arg_sensitive)) IN
              /\ fs' = [fs EXCEPT ![p] = c]
              /\ frame' = [frame EXCEPT ![t] =
                    [@ EXCEPT !.pc = "test_run", !.in_name = p,
                              !.created = @ \cup {p}, !.own = @ \cup {p},
                              !.foreign = @ \/ Foreign(t, p)]]
    /\ UNCHANGED <<experimentVars, constructed, eta, sensitive_attr, class_attr, model_name, ncalls>>

\* subprocess.run(['python', .../predict_lr.py, '-i', test_name,
\*                 '-m', self.model_name, '-o', output_name, '--quiet'])
runTest_subprocess(t) ==
    LET f == frame[t] IN
    /\ f.pc = "test_run"
    /\ IF model_name = NoPath
       THEN \* self.model_name is read while the argument list is built
            /\ frame' = Raise(t, f, "AttributeError")
            /\ fs' = fs
       ELSE \E launch \in BOOLEAN, exitcode \in {0, 1}, out \in ToolOutputs :
              /\ ~launch => exitcode = 1 /\ out = EmptyFile
              /\ exitcode = 1 => out \in {EmptyFile, Garbage}
              /\ LET g == [f EXCEPT !.launched = launch, !.exitcode = exitcode,
                                    !.args = [e |-> 0, i |-> f.in_name,
                                              m |-> model_name, o |-> f.output_name],
                                    !.toolout = IF launch THEN out ELSE Absent,
                                    !.foreign = @ \/ (launch /\ (Foreign(t, f.in_name)
                                                        \/ Foreign(t, f.output_name)))]
                 IN /\ frame' = IF RunRaises(launch, exitcode)
                                 THEN Raise(t, g, "FileNotFoundError")
                                 ELSE [frame EXCEPT ![t] = [g EXCEPT !.pc = "test_unlink"]]
                    /\ fs' = IF launch /\ out # EmptyFile
                              THEN [fs EXCEPT ![f.output_name] = out]
                              ELSE fs
    /\ UNCHANGED <<experimentVars, constructed, eta, sensitive_attr, class_attr, model_name, ncalls>>

\* os.unlink(test_name)
runTest_unlink(t) ==
    LET f == frame[t] IN
    /\ f.pc = "test_unlink"
    /\ IF fs[f.in_name].kind = "absent"
       THEN /\ frame' = Raise(t, f, "FileNotFoundError")
            /\ fs' = fs
       ELSE /\ fs' = [fs EXCEPT ![f.in_name] = Absent]
            /\ frame' = [frame EXCEPT ![t] =
                  [@ EXCEPT !.pc = "test_load", !.own = @ \ {f.in_name},
                            !.foreign = @ \/ Foreign(t, f.in_name)]]
    /\ UNCHANGED <<experimentVars, constructed, eta, sensitive_attr, class_attr, model_name, ncalls>>

\* m = np.loadtxt(output_name)
runTest_loadtxt(t) ==
    LET f == frame[t] IN
    /\ f.pc = "test_load"
    /\ frame' = IF LoadtxtRaises(fs[f.output_name])
                 THEN Raise(t, f, IF fs[f.output_name].kind = "absent"
                                  THEN "OSError" ELSE "ValueError")
                 ELSE [frame EXCEPT ![t] =
                        [@ EXCEPT !.pc = "test_return", !.m = loadtxt(fs[f.output_name]),
                                  !.foreign = @ \/ Foreign(t, f.output_name)]]
    /\ UNCHANGED <<experimentVars, constructed, eta, sensitive_attr, class_attr, model_name, fs, ncalls>>

\* os.unlink(output_name); predictions = m[:, 1]; prediction_probs = m[:, 3:5];
\* return; pred_dataset.labels = predictions; pred_dataset.scores = scores
runTest_return(t) ==
    LET f == frame[t] IN
    /\ f.pc = "test_return"
    /\ IF fs[f.output_name].kind = "absent"
       THEN /\ frame' = Raise(t, f, "FileNotFoundError")
            /\ fs' = fs
       ELSE /\ fs' = [fs EXCEPT ![f.output_name] = Absent]
            /\ LET g == [f EXCEPT !.own = @ \ {f.output_name},
                                  !.foreign = @ \/ Foreign(t, f.output_name)]
               IN frame' = IF SliceRaises(f.m)
                           THEN Raise(t, g, "IndexError")
                           ELSE [frame EXCEPT ![t] =
                                  [g EXCEPT !.pc = "idle",
                                            !.predictions = PredictionColumn(f.m),
                                            !.scores = ProbabilityColumns(f.m)]]
    /\ UNCHANGED <<experimentVars, constructed, eta, sensitive_attr, class_attr, model_name, ncalls>>

----------------------------------------------------------------------------
(* run_experiment.py *)

\* input() raising EOFError instead of returning an answer
Eof == "<EOF>"

\* int(answer): the value, for the answers that are numerals
IsNumeral(a) == a \in {"30", "10", "-1"}
IntOf(a) == CASE a = "30" -> 30 [] a = "10" -> 10 [] a = "-1" -> -1

\* answer.lower()
Lower(a) == CASE a = "White" -> "white" [] a = "W" -> "w" [] OTHER -> a

NoSubject == [name |-> "", age |-> "", gender |-> "", race |-> ""]

model_names == <<"Adversarial_Debiased", "Plain", "ExpGrad", "Gerry_Fair">>
model_aliases == <<"Albatross", "Beaver", "Chameleon", "Dragonfly">>

\* the locals of adversarial_debiasing_query; bound: the locals that have a
\* value; assigned: the locals given a value in the current pass of the loop
NoQuery ==
    [pc |-> "none", bound |-> {}, assigned |-> {},
     age_input |-> 0, education_input |-> 0, race_input |-> 0, sex_input |-> 0,
     raw_race_input |-> "", raw_sex_input |-> "",
     all_inputs_valid |-> FALSE, pred_list |-> <<>>, logged |-> <<>>, result |-> FALSE]

\* the predictions the four models can return for one query
PredLists == {<<0, 0, 0, 0>>, <<1, 0, 1, 0>>, <<1, 1, 1, 1>>}

\* subject_info_t = executor.submit(get_subject_info)
main_submit ==
    /\ main_pc = "submit"
    /\ main_pc' = "load"
    /\ worker_pc' = "ask_name"
    /\ UNCHANGED <<adapterVars, trained, all_models, future, subject, q, rounds,
                   completed, crashed>>

\* get_subject_info: the prompts, init_log_file, and the return
worker_step ==
    /\ worker_pc \in {"ask_name", "init_log", "ask_age", "ask_gender", "ask_race"}
    /\ \E a \in {"f", "m"} :
         /\ future' =
              CASE worker_pc = "ask_name"   -> [future EXCEPT !.name = "s1"]
                [] worker_pc = "init_log"   -> future
                [] worker_pc = "ask_age"    -> [future EXCEPT !.age = "30"]
                [] worker_pc = "ask_gender" -> [future EXCEPT !.gender = a]
                [] worker_pc = "ask_race"   -> [future EXCEPT !.race = "white"]
         /\ worker_pc # "ask_gender" => a = "f"
    /\ worker_pc' =
         CASE worker_pc = "ask_name"   -> "init_log"
           [] worker_pc = "init_log"   -> "ask_age"
           [] worker_pc = "ask_age"    -> "ask_gender"
           [] worker_pc = "ask_gender" -> "ask_race"
           [] worker_pc = "ask_race"   -> "done"
    /\ UNCHANGED <<adapterVars, main_pc, trained, all_models, subject, q, rounds,
                   completed, crashed>>

\* the statements of the with block that run on the main thread
TrainingPcs == {"plain_training", "adversarial_debiasing",
                "exponentiated_gradient_reduction", "gerry_fair_trained_model"}

\* dataset_orig = load_preproc_data_adult()
main_load ==
    /\ main_pc = "load"
    /\ main_pc' = "plain_training"
    /\ UNCHANGED <<adapterVars, worker_pc, trained, all_models, future, subject, q,
                   rounds, completed, crashed>>

\* plain_model = plain_training(...); adversarial_model = adversarial_debiasing(...);
\* expgrad_model = exponentiated_gradient_reduction(...);
\* gerryfair_model = gerry_fair_trained_model(...): each call returns
main_train ==
    /\ main_pc \in TrainingPcs
    /\ trained' = trained \cup
         {CASE main_pc = "plain_training" -> "Plain"
            [] main_pc = "adversarial_debiasing" -> "Adversarial_Debiased"
            [] main_pc = "exponentiated_gradient_reduction" -> "ExpGrad"
            [] main_pc = "gerry_fair_trained_model" -> "Gerry_Fair"}
    /\ main_pc' =
         CASE main_pc = "plain_training" -> "adversarial_debiasing"
           [] main_pc = "adversarial_debiasing" -> "exponentiated_gradient_reduction"
           [] main_pc = "exponentiated_gradient_reduction" -> "gerry_fair_trained_model"
           [] main_pc = "gerry_fair_trained_model" -> "collect"
    /\ UNCHANGED <<adapterVars, worker_pc, all_models, future, subject, q, rounds,
                   completed, crashed>>

\* all_models = [adversarial_model, plain_model, expgrad_model, gerryfair_model]
main_collect ==
    /\ main_pc = "collect"
    /\ all_models' = model_names
    /\ main_pc' = "result"
    /\ UNCHANGED <<adapterVars, worker_pc, trained, future, subject, q, rounds,
                   completed, crashed>>

\* subject = subject_info_t.result(), which waits for the worker, and the end
\* of the with block, which shuts the executor down
main_result ==
    /\ main_pc = "result"
    /\ worker_pc = "done"
    /\ subject' = future
    /\ main_pc' = "query_loop"
    /\ UNCHANGED <<adapterVars, worker_pc, trained, all_models, future, q, rounds,
                   completed, crashed>>

\* while continue_session: adversarial_debiasing_query(subject, all_models) is called
query_begin ==
    /\ main_pc = "query_loop"
    /\ main_pc' = "in_query"
    /\ rounds' = rounds + 1
    /\ q' = [NoQuery EXCEPT !.pc = "ask_continue"]
    /\ UNCHANGED <<adapterVars, worker_pc, trained, all_models, future, subject,
                   completed, crashed>>

\* an uncaught exception ends the program
Crash(e) ==
    /\ crashed' = e
    /\ main_pc' = "dead"
    /\ q' = [q EXCEPT !.pc = "raised"]

\* continue_field = input(...); if continue_field == 'n': return False
query_continue ==
    /\ main_pc = "in_query" /\ q.pc = "ask_continue"
    /\ \E a \in {"y", "n", Eof} :
         /\ a = "y" => rounds <= MaxRounds
         /\ IF a = Eof THEN Crash("EOFError")
            ELSE /\ q' = IF a = "n" THEN [q EXCEPT !.pc = "returned", !.result = FALSE]
                         ELSE [q EXCEPT !.pc = "ask_age"]
                 /\ UNCHANGED <<main_pc, crashed>>
    /\ UNCHANGED <<adapterVars, worker_pc, trained, all_models, future, subject,
                   rounds, completed>>

\* except Exception: print(...); the while loop starts another pass
Retry(f) == [f EXCEPT !.pc = "ask_age", !.assigned = {}]

\* a local is given a value
Bind(f, name) == [f EXCEPT !.bound = @ \cup {name}, !.assigned = @ \cup {name}]

\* age_input = int(input(...)); if age_input == -1: return False
query_age ==
    /\ main_pc = "in_query" /\ q.pc = "ask_age"
    /\ \E a \in {"30", "-1", "abc", Eof} :
         q' = IF ~IsNumeral(a) THEN Retry(q)
              ELSE LET f == [Bind(q, "age_input") EXCEPT !.age_input = IntOf(a)] IN
                   IF IntOf(a) = -1
                   THEN [f EXCEPT !.pc = "returned", !.result = FALSE]
                   ELSE [f EXCEPT !.pc = "ask_hrsperweek"]
    /\ UNCHANGED <<adapterVars, main_pc, worker_pc, trained, all_models, future,
                   subject, rounds, completed, crashed>>

\* hrsperweek_input = input(...), marital_input = input(...),
\* occupation_input = input(...)
query_text(at, name, next) ==
    /\ main_pc = "in_query" /\ q.pc = at
    /\ \E a \in {"answer", Eof} :
         q' = IF a = Eof THEN Retry(q) ELSE [Bind(q, name) EXCEPT !.pc = next]
    /\ UNCHANGED <<adapterVars, main_pc, worker_pc, trained, all_models, future,
                   subject, rounds, completed, crashed>>

query_hrsperweek == query_text("ask_hrsperweek", "hrsperweek_input", "ask_education")

\* education_input = int(input(...))
query_education ==
    /\ main_pc = "in_query" /\ q.pc = "ask_education"
    /\ \E a \in {"10", "abc", Eof} :
         q' = IF ~IsNumeral(a) THEN Retry(q)
              ELSE [Bind(q, "education_input") EXCEPT !.education_input = IntOf(a),
                                                     !.pc = "ask_marital"]
    /\ UNCHANGED <<adapterVars, main_pc, worker_pc, trained, all_models, future,
                   subject, rounds, completed, crashed>>

query_marital == query_text("ask_marital", "marital_input", "ask_occupation")

query_occupation == query_text("ask_occupation", "occupation_input", "ask_race")

\* raw_race_input = input(...).lower(); race_input = 1.0 if it is "white" or
\* "w", else 0.0
query_race ==
    /\ main_pc = "in_query" /\ q.pc = "ask_race"
    /\ \E a \in {"White", "w", "Black", Eof} :
         q' = IF a = Eof THEN Retry(q)
              ELSE [Bind(Bind(q, "raw_race_input"), "race_input") EXCEPT
                      !.raw_race_input = Lower(a),
                      !.race_input = IF Lower(a) = "white" \/ Lower(a) = "w" THEN 1 ELSE 0,
                      !.pc = "ask_sex"]
    /\ UNCHANGED <<adapterVars, main_pc, worker_pc, trained, all_models, future,
                   subject, rounds, completed, crashed>>

\* raw_sex_input = input(...); if raw_sex_input == 'f': sex_input = 0.0
\* elif raw_sex_input == 'm': sex_input = 1.0
query_sex ==
    /\ main_pc = "in_query" /\ q.pc = "ask_sex"
    /\ \E a \in {"m", "f", "x", Eof} :
         q' = IF a = Eof THEN Retry(q)
              ELSE LET f == [Bind(q, "raw_sex_input") EXCEPT !.raw_sex_input = a,
                                                             !.pc = "ask_workclass"] IN
                   IF a = "f" THEN [Bind(f, "sex_input") EXCEPT !.sex_input = 0]
                   ELSE IF a = "m" THEN [Bind(f, "sex_input") EXCEPT !.sex_input = 1]
                   ELSE f
    /\ UNCHANGED <<adapterVars, main_pc, worker_pc, trained, all_models, future,
                   subject, rounds, completed, crashed>>

\* workclass_input = input(...); all_inputs_valid = True: the loop ends
query_workclass ==
    /\ main_pc = "in_query" /\ q.pc = "ask_workclass"
    /\ \E a \in {"answer", Eof} :
         q' = IF a = Eof THEN Retry(q)
              ELSE [Bind(q, "workclass_input") EXCEPT !.all_inputs_valid = TRUE,
                                                     !.pc = "validated"]
    /\ UNCHANGED <<adapterVars, main_pc, worker_pc, trained, all_models, future,
                   subject, rounds, completed, crashed>>

\* the locals create_single_entry_adult_dataset is called with
QueryArguments == {"race_input", "sex_input", "age_input", "education_input"}

\* raw_query = RawQuery(...); query_input = create_single_entry_adult_dataset(
\* race_input, sex_input, age_input, education_input); the predictions of
\* model_list[0:3] and of model_list[3:4]
query_predict ==
    /\ main_pc = "in_query" /\ q.pc = "validated"
    /\ IF QueryArguments \subseteq q.bound
       THEN /\ \E preds \in PredLists : q' = [q EXCEPT !.pc = "log", !.pred_list = preds]
            /\ UNCHANGED <<main_pc, crashed>>
       ELSE Crash("UnboundLocalError")
    /\ UNCHANGED <<adapterVars, worker_pc, trained, all_models, future, subject,
                   rounds, completed>>

\* for i, pred in enumerate(pred_list): ... subject.log_completed_query(...);
\* return True
query_log ==
    /\ main_pc = "in_query" /\ q.pc = "log"
    /\ LET entries == [i \in 1..Len(q.pred_list) |->
                          [modelType |-> model_aliases[i],
                           output |-> IF q.pred_list[i] = 0 THEN "LESS" ELSE "MORE"]]
       IN /\ q' = [q EXCEPT !.pc = "returned", !.result = TRUE, !.logged = entries]
          /\ completed' = completed + Len(entries)
    /\ UNCHANGED <<adapterVars, main_pc, worker_pc, trained, all_models, future,
                   subject, rounds, crashed>>

\* continue_session = <the query's result>; subject.save_session_raw_queries()
main_after_query ==
    /\ main_pc = "in_query" /\ q.pc = "returned"
    /\ main_pc' = IF q.result THEN "query_loop" ELSE "ranking"
    /\ UNCHANGED <<adapterVars, worker_pc, trained, all_models, future, subject, q,
                   rounds, completed, crashed>>

\* rankings = prompt_for_ranking(); subject.save_session_data(rankings);
\* subject.print_all_queries(); return
main_finish ==
    /\ main_pc = "ranking"
    /\ main_pc' = "done"
    /\ UNCHANGED <<adapterVars, worker_pc, trained, all_models, future, subject, q,
                   rounds, completed, crashed>>

\* no survey session
ExperimentIdle ==
    /\ main_pc = "none"
    /\ worker_pc = "none"
    /\ trained = {}
    /\ all_models = <<>>
    /\ future = NoSubject
    /\ subject = NoSubject
    /\ q = NoQuery
    /\ rounds = 0
    /\ completed = 0
    /\ crashed = ""

----------------------------------------------------------------------------
(* One adapter used by one thread *)

\* the constructor calls tried: PrejudiceRemover() with its defaults, and
\* with some or all of eta, sensitive_attr and class_attr given
Constructions ==
    {[eta |-> 1, sensitive_attr |-> "", class_attr |-> ""],
     [eta |-> 0, sensitive_attr |-> "s", class_attr |-> "y"],
     [eta |-> 1, sensitive_attr |-> "s", class_attr |-> ""],
     [eta |-> 0, sensitive_attr |-> "", class_attr |-> "y"],
     [eta |-> 1, sensitive_attr |-> "f1", class_attr |-> ""]}

\* PrejudiceRemover(eta, sensitive_attr, class_attr)
Init ==
    /\ constructed \in Constructions
    /\ LET c == constructed IN
          /\ eta = c.eta
          /\ sensitive_attr = c.sensitive_attr
          /\ class_attr = c.class_attr
    /\ model_name = NoPath
    /\ fs = [p \in Paths |-> Absent]
    /\ frame = [t \in Threads |-> IdleFrame]
    /\ ncalls = [t \in Threads |-> 0]
    /\ ExperimentIdle

Next ==
    \/ \E ds \in Datasets : fit(1, ds)
    \/ runTrain_mkstemp(1)
    \/ runTrain_create_file(1)
    \/ runTrain_subprocess(1)
    \/ runTrain_return(1)
    \/ \E ds \in Datasets : predict(1, ds)
    \/ runTest_mkstemp(1)
    \/ runTest_create_file(1)
    \/ runTest_subprocess(1)
    \/ runTest_unlink(1)
    \/ runTest_loadtxt(1)
    \/ runTest_return(1)

Spec == Init /\ [][Next]_vars

----------------------------------------------------------------------------
(* One trained adapter used by two threads that call predict *)

\* the adapter after PrejudiceRemover().fit(dataset of layout A) with no call
\* in progress
InitConcurrent ==
    /\ constructed = [eta |-> 1, sensitive_attr |-> "", class_attr |-> ""]
    /\ eta = 1
    /\ sensitive_attr = "s"
    /\ class_attr = "y"
    /\ model_name \in mkstemp([p \in Paths |-> Absent])
    /\ fs = [p \in Paths |-> IF p = model_name THEN ModelFile ELSE Absent]
    /\ frame = [t \in Threads |-> IdleFrame]
    /\ ncalls = [t \in Threads |-> 0]
    /\ ExperimentIdle

ConcurrentDatasets == {ds \in Datasets : ds.layout = "A" /\ Len(ds.rows) = MaxRows}

NextConcurrent ==
    \E t \in Threads :
        \/ \E ds \in ConcurrentDatasets :
              ncalls[t] < MaxConcurrentCalls /\ predict(t, ds)
        \/ runTest_mkstemp(t)
        \/ runTest_create_file(t)
        \/ runTest_subprocess(t)
        \/ runTest_unlink(t)
        \/ runTest_loadtxt(t)
        \/ runTest_return(t)

SpecConcurrent == InitConcurrent /\ [][NextConcurrent]_vars

----------------------------------------------------------------------------
(* One survey session *)

\* python run_experiment.py: run_experiment() is entered
InitExperiment ==
    /\ constructed = [eta |-> 1, sensitive_attr |-> "", class_attr |-> ""]
    /\ eta = 1
    /\ sensitive_attr = ""
    /\ class_attr = ""
    /\ model_name = NoPath
    /\ fs = [p \in Paths |-> Absent]
    /\ frame = [t \in Threads |-> IdleFrame]
    /\ ncalls = [t \in Threads |-> 0]
    /\ main_pc = "submit"
    /\ worker_pc = "none"
    /\ trained = {}
    /\ all_models = <<>>
    /\ future = NoSubject
    /\ subject = NoSubject
    /\ q = NoQuery
    /\ rounds = 0
    /\ completed = 0
    /\ crashed = ""

NextExperiment ==
    \/ main_submit
    \/ worker_step
    \/ main_load
    \/ main_train
    \/ main_collect
    \/ main_result
    \/ query_begin
    \/ query_continue
    \/ query_age
    \/ query_hrsperweek
    \/ query_education
    \/ query_marital
    \/ query_occupation
    \/ query_race
    \/ query_sex
    \/ query_workclass
    \/ query_predict
    \/ query_log
    \/ main_after_query
    \/ main_finish

SpecExperiment == InitExperiment /\ [][NextExperiment]_vars

----------------------------------------------------------------------------
(* Properties of the adapter, under Spec *)

\* thread t's call has ended, by a return or by an exception
Ended(t) == frame[t].pc = "idle" /\ frame[t].op # "none"

\* C1: predict on an adapter on which no fit has completed fails, and that
\* call launches no subprocess and creates, writes and deletes no file.
C1_PredictBeforeTrainTouchesNothing ==
    \A t \in Threads :
        (Ended(t) /\ frame[t].op = "predict" /\ frame[t].handle_before = NoPath)
            => /\ frame[t].err # ""
               /\ ~frame[t].launched
               /\ frame[t].created = {}

\* C2: once a fit or predict call has ended, by a return or by an exception,
\* none of the temp files it created (the encoded input file, and predict's
\* output file) exists.
C2_NoTempFileLeftBehind ==
    \A t \in Threads :
        Ended(t) => \A p \in frame[t].created : fs[p].kind = "absent"

\* C3: when the external tool exits with a non-zero status, the call fails
\* and the model handle is as it was before the call.
C3_NonZeroExitFailsAndKeepsHandle ==
    \A t \in Threads :
        (Ended(t) /\ frame[t].launched /\ frame[t].exitcode # 0)
            => /\ frame[t].err # ""
               /\ model_name = frame[t].handle_before

\* row i of the dataset restricted to the columns cols, in that order
RowOver(ds, cols, i) == [j \in 1..Len(cols) |-> CellValue(cols[j], ds.rows[i])]

\* the input file fit has just written, for a call that got that far
TrainFileWritten(t) == frame[t].op = "fit" /\ frame[t].pc = "train_run"

\* C4 as stated: the file fit writes has one row per dataset row, in order:
\* every column other than the designated sensitive attribute and the label,
\* in column order, then the sensitive attribute's value, then the label's.
C4_RowIsOtherColumnsThenSensitiveThenLabel ==
    \A t \in Threads :
        TrainFileWritten(t) =>
            LET f == frame[t]
                others == SelectSeq(DataFrameColumns(f.ds),
                              LAMBDA c : c # f.arg_sensitive /\ c # f.arg_class)
                cols == others \o <<f.arg_sensitive, f.arg_class>>
            IN  fs[f.in_name] =
                    MatrixFile([i \in 1..Len(f.ds.rows) |-> RowOver(f.ds, cols, i)])

\* C4, amended: the file fit writes has one row per dataset row, in order:
\* every column that is neither the label nor one of the dataset's declared
\* protected attributes, in column order, then the designated sensitive
\* attribute's value, then the label's; for eta = 0 as for eta > 0.
C4_RowIsUnprotectedColumnsThenSensitiveThenLabel ==
    \A t \in Threads :
        TrainFileWritten(t) =>
            LET f == frame[t]
                protected == Range(protected_attribute_names(f.ds.layout))
                others == SelectSeq(DataFrameColumns(f.ds),
                              LAMBDA c : c \notin protected /\ c # f.arg_class)
            IN  /\ fs[f.in_name].kind = IF Len(f.ds.rows) = 0 THEN "empty" ELSE "matrix"
                /\ Len(fs[f.in_name].rows) = Len(f.ds.rows)
                /\ \A i \in 1..Len(f.ds.rows) :
                     fs[f.in_name].rows[i] =
                        RowOver(f.ds, others, i)
                            \o <<CellValue(f.arg_sensitive, f.ds.rows[i]),
                                 CellValue(f.arg_class, f.ds.rows[i])>>

\* fit wrote the file for a dataset of several rows that declares two
\* protected attributes
C4_Witness ==
    \E t \in Threads :
        /\ TrainFileWritten(t)
        /\ Len(frame[t].ds.rows) >= 2
        /\ Len(protected_attribute_names(frame[t].ds.layout)) = 2
        /\ fs[frame[t].in_name].kind = "matrix"

\* the predictor ran, exited with status 0 and wrote one well-formed row per
\* row of the dataset, of which there is at least one
WellFormedOutput(t) ==
    /\ frame[t].op = "predict"
    /\ frame[t].launched /\ frame[t].exitcode = 0
    /\ frame[t].toolout.kind = "matrix"
    /\ Len(frame[t].toolout.rows) = Len(frame[t].ds.rows)
    /\ Len(frame[t].ds.rows) >= 1

\* C5: given a well-formed output of N >= 1 rows for a dataset of N rows,
\* predict returns N predictions, column 1 of the output, and N score pairs,
\* columns 3 and 4, in row order.
C5_PredictReturnsColumnsOfOutput ==
    \A t \in Threads :
        (Ended(t) /\ WellFormedOutput(t)) =>
            LET f == frame[t] IN
            /\ f.err = ""
            /\ Len(f.predictions) = Len(f.ds.rows)
            /\ Len(f.scores) = Len(f.ds.rows)
            /\ \A i \in 1..Len(f.ds.rows) :
                 /\ f.predictions[i] = f.toolout.rows[i][2]
                 /\ f.scores[i] = <<f.toolout.rows[i][4], f.toolout.rows[i][5]>>

\* C6: every fit call on an adapter constructed without a sensitive attribute
\* (label) name uses the first protected attribute (label) name of the dataset
\* passed to that call.
C6_DefaultsComeFromTheDatasetOfTheCall ==
    \A t \in Threads :
        frame[t].op = "fit" =>
            /\ constructed.sensitive_attr = ""
                 => frame[t].arg_sensitive =
                        protected_attribute_names(frame[t].ds.layout)[1]
            /\ constructed.class_attr = ""
                 => frame[t].arg_class = label_names(frame[t].ds.layout)[1]

\* C7: a fit that returns leaves the handle at the path it produced, a fit
\* that raises and every predict leave the handle as it was, the file the
\* handle names always exists, and a predict that runs the predictor passes
\* it the handle.
C7_HandleIsLastTrainedModelAndExists ==
    /\ model_name # NoPath => fs[model_name].kind # "absent"
    /\ \A t \in Threads :
        LET f == frame[t] IN
        /\ (Ended(t) /\ f.op = "fit" /\ f.err = "")
              => model_name = f.model_tmp /\ f.args.o = f.model_tmp
        /\ (Ended(t) /\ f.op = "fit" /\ f.err # "") => model_name = f.handle_before
        /\ (f.op = "fit" /\ f.pc # "idle") => model_name = f.handle_before
        /\ f.op = "predict" => model_name = f.handle_before
        /\ (f.op = "predict" /\ f.launched)
              => f.args.m = f.handle_before /\ f.args.m # NoPath

\* a predict ran the predictor after a second fit replaced the handle: the
\* replaced model file is still there too
C7_Witness ==
    \E t \in Threads :
        /\ Ended(t) /\ frame[t].op = "predict" /\ frame[t].launched
        /\ frame[t].err = ""
        /\ \E p \in Paths : p # model_name /\ fs[p].kind = "model"

----------------------------------------------------------------------------
(* Properties of concurrent predict calls, under SpecConcurrent *)

\* C8: in every interleaving of the predict calls of two threads on one
\* trained adapter, the temp files of the calls in progress are distinct, no
\* call reads, overwrites or deletes a file of the other, the handle and the
\* model file stay as they were, and a call that returns returns what its own
\* predictor run wrote.
C8_ConcurrentPredictsKeepApart ==
    /\ \A t, u \in Threads : t # u => frame[t].own \cap frame[u].own = {}
    /\ \A t \in Threads : ~frame[t].foreign
    /\ fs[model_name] = ModelFile
    /\ \A t \in Threads : frame[t].op # "none" => model_name = frame[t].handle_before
    /\ \A t \in Threads : model_name \notin frame[t].created
    /\ \A t \in Threads :
        (Ended(t) /\ frame[t].err = "") =>
            LET f == frame[t] IN
            /\ Len(f.predictions) = Len(f.toolout.rows)
            /\ Len(f.scores) = Len(f.toolout.rows)
            /\ \A i \in 1..Len(f.toolout.rows) :
                 /\ f.predictions[i] = f.toolout.rows[i][2]
                 /\ f.scores[i] = <<f.toolout.rows[i][4], f.toolout.rows[i][5]>>

\* both threads are inside predict, each holding its two temp files, after
\* their predictors wrote different outputs
C8_Witness ==
    /\ frame[1].pc = "test_unlink" /\ frame[2].pc = "test_unlink"
    /\ Cardinality(frame[1].own \cup frame[2].own) = 4
    /\ frame[1].toolout.kind = "matrix" /\ frame[2].toolout.kind = "matrix"
    /\ frame[1].toolout # frame[2].toolout

----------------------------------------------------------------------------
(* Properties of the survey session, under SpecExperiment *)

\* C9: the user can query the models while they are training: once the
\* subject's details are in, a query round can start while a training call
\* is in progress.
C9_QueryCanStartDuringTraining ==
    (main_pc \in TrainingPcs /\ worker_pc = "done") => ENABLED query_begin

\* what the code does instead: while a training call is in progress no query
\* round has started, and only get_subject_info runs beside the training
QueryingStartsAfterTraining ==
    /\ main_pc \in TrainingPcs => rounds = 0 /\ q.pc = "none"
    /\ rounds > 0 => all_models = model_names /\ worker_pc = "done"

\* C10: when the validation loop ends, every local passed to the models was
\* given a value in that pass of the loop; so a round that passes validation
\* logs four completed queries, one per alias in order, and returns True.
C10_ValidatedRoundUsesThisPassAndLogsFour ==
    /\ q.pc = "validated" => QueryArguments \subseteq q.assigned
    /\ (q.all_inputs_valid /\ q.pc \in {"raised", "returned"})
          => /\ q.pc = "returned" /\ q.result
             /\ [i \in 1..Len(q.logged) |-> q.logged[i].modelType] = model_aliases

====
